---- MODULE Spec2Model ----
(***************************************************************************)
(* CeleryData (secator/celery_utils.py): polling a Celery task and all of  *)
(* its subtasks.  The model covers one session of poll / get_all_data /    *)
(* get_task_data driven by iter_results, with the broker as environment    *)
(* (Spec, FairSpec); a walk of get_task_ids over a handle graph (WalkSpec);*)
(* the progress rendering of iter_results (RenderSpec); and get_task_data  *)
(* as a function of a list payload (ClassifySpec).                         *)
(***************************************************************************)
EXTENDS Integers, Sequences, FiniteSets, TLC

\* ------------------------------------------------------------------ bounds
\* Largest number of identifiers the caller puts in ids_map.
MaxIds == 2

\* ------------------------------------------------------------ python dicts
\* dict.update(u): keys of u override, the other keys are kept.
Update(d, u) ==
  [k \in (DOMAIN d) \cup (DOMAIN u) |-> IF k \in DOMAIN u THEN u[k] ELSE d[k]]

\* ------------------------------------------------------------- the broker
Names == <<"httpx", "nmap", "ffuf">>
Nothing == [kind |-> "nothing"]

\* An output record: only _type, _source and percent are read by this code;
\* uuid stands for the rest of the record (its identity).
Rec(uuid, type, source, percent) ==
  [uuid |-> uuid, type |-> type, source |-> source, percent |-> percent]

\* What AsyncResult(task_id) shows: .state and .info.  info is None, an
\* Exception (decode: it is a kombu DecodeError), a list or a dict.
View(state, info, rank) == [state |-> state, info |-> info, rank |-> rank]
InfoNone == [kind |-> "none"]
InfoExc(decode) == [kind |-> "exc", decode |-> decode]
InfoList(items) == [kind |-> "list", items |-> items]
InfoDict(map) == [kind |-> "dict", map |-> map]

\* The views task t goes through.  rank orders them in time: a task only moves
\* to a view of higher rank, so its self-reported progress (40, then the 70 of
\* a progress record) never decreases and a terminal state is never left.
Views(t) ==
  { View("PENDING", InfoNone, 0),
    View("RUNNING", InfoDict([progress |-> 40, ready |-> TRUE]), 1),
    View("RUNNING",
         InfoDict([results |-> <<Rec(10 * t + 1, "progress", Names[t], 70)>>,
                   count |-> 0]), 2),
    View("RUNNING", InfoDict([state |-> "REVOKED", ready |-> FALSE]), 3),
    View("SUCCESS",
         InfoList(<<Rec(10 * t + 2, "item", Names[t], 0),
                    Rec(10 * t + 3, "item", "subtask", 0)>>), 3),
    View("SUCCESS", InfoList(<<Rec(10 * t + 4, "error", Names[t], 0)>>), 3),
    View("SUCCESS", InfoList(<< >>), 3),
    View("FAILURE", InfoExc(FALSE), 3),
    View("FAILURE", InfoExc(TRUE), 3),
    View("REVOKED", InfoNone, 3) }

\* The descriptor the caller supplies for task t.  The code reads id,
\* full_name, state and count of every snapshot (debug call of get_all_data),
\* name (count of a list payload) and the renderer shows progress.
Descriptor(t) ==
  [id |-> t, name |-> Names[t], full_name |-> Names[t], descr |-> "scan",
   state |-> "PENDING", count |-> 0, progress |-> 0]

\* --------------------------------------------------------- get_task_data
TERMINAL == {"FAILURE", "SUCCESS", "REVOKED"}

\* data.update({'state': res.state, 'ready': False, 'results': []})
SetUpState(data, res) ==
  Update(data, [state |-> res.state, ready |-> FALSE, results |-> << >>])

\* ReadInfo with the state of a list payload left as the broker reported it.
ReadInfoStateKept(data, info) ==
  CASE info.kind = "list" ->
         LET own == SelectSeq(info.items, LAMBDA c : c.source = data["name"])
         IN  Update(data, [results |-> info.items, count |-> Len(own)])
    [] info.kind = "dict" -> Update(data, info.map)
    [] OTHER -> data

\* The list and dict branches on info.
ReadInfo(data, info) ==
  CASE info.kind = "list" ->
         LET errors == SelectSeq(info.items, LAMBDA e : e.type = "error")
             own == SelectSeq(info.items, LAMBDA c : c.source = data["name"])
         IN  Update(data, [results |-> info.items,
                           count |-> Len(own),
                           state |-> IF errors # << >> THEN "FAILURE" ELSE "SUCCESS"])
    [] info.kind = "dict" -> Update(data, info.map)
    [] OTHER -> data

\* SetReady without the assignment: ready stays as set up, or as info gave it.
SetReadyKept(data) == data

\* data['ready'] = data['state'] in ['FAILURE', 'SUCCESS', 'REVOKED']
SetReady(data) == Update(data, [ready |-> data["state"] \in TERMINAL])

\* SetProgress without the branch of a ready task.
SetProgressUnforced(data) ==
  IF data["results"] # << >>
  THEN LET progresses == SelectSeq(data["results"], LAMBDA e : e.type = "progress")
       IN  IF progresses # << >>
           THEN Update(data, [progress |-> progresses[Len(progresses)].percent])
           ELSE data
  ELSE data

\* if data['ready'] ... elif data['results'] ...
SetProgress(data) ==
  IF data["ready"]
  THEN Update(data, [progress |-> 100])
  ELSE IF data["results"] # << >>
       THEN LET progresses == SelectSeq(data["results"], LAMBDA e : e.type = "progress")
            IN  IF progresses # << >>
                THEN Update(data, [progress |-> progresses[Len(progresses)].percent])
                ELSE data
       ELSE data

\* The snapshot get_task_data returns when nothing is raised.
get_task_data(data, res) ==
  SetProgress(SetReady(ReadInfo(SetUpState(data, res), res.info)))

\* --------------------------------------------------------- get_all_data
\* count_finished = sum([i['ready'] for i in datas if i])
count_finished(map, datas) ==
  Cardinality({j \in DOMAIN datas : map[datas[j]]["ready"]})

\* percent = int(count_finished * 100 / total) if total > 0 else 0
percent(map, datas) ==
  IF Len(datas) > 0 THEN (count_finished(map, datas) * 100) \div Len(datas) ELSE 0

\* ------------------------------------------------------------------ poll
\* Handler without the except clause.
HandlerNone(type) == "finally"

\* Handler with a bare except clause.
HandlerAll(type) == "except"

\* except kombu.exceptions.DecodeError: where an exception raised in the try
\* block of poll goes.  Anything else only passes through the finally clause.
Handler(type) == IF type = "DecodeError" THEN "except" ELSE "finally"

\* AfterPass with the break after every pass.
AfterPassBreak(is_final) == "finally"

\* What follows get_all_data in poll: after the first pass result.ready() is
\* asked, after the pass that follows a ready root the loop breaks.
AfterPass(is_final) == IF is_final THEN "finally" ELSE "check"

\* AfterReady with the answer of result.ready() ignored.
AfterReadyIgnored(ready) == "finally"

\* if result.ready(): the second get_all_data starts, else the try block ends.
AfterReady(ready) == IF ready THEN "pass" ELSE "finally"

\* ------------------------------------------------------------------ state
VARIABLES
  ids_map,       \* the caller's ids_map: identifier -> dict (shared with the snapshots)
  broker,        \* identifier -> what AsyncResult(task_id) showed at the last read
  root_ready,    \* what result.ready() answered last
  pc,            \* where poll is: "pass", "check", "except", "finally", "done", "raised", "closed"
  final,         \* the pass under way is the one after result.ready()
  i,             \* get_all_data: index in task_ids of the next identifier
  datas,         \* get_all_data: identifiers of the snapshots appended so far
  after,         \* what follows the finally clause: "loop", "break", "raise", "close"
  exc,           \* the exception raised in the current cycle, if any
  emitted,       \* the snapshot poll is suspended on (Nothing when it is running)
  yielded,       \* uuids of the records iter_results has yielded so far
  cycle,         \* the current cycle: passes completed, progress of its latest aggregate
  walk,          \* get_task_ids: the handle graph, the call stack, ids
  render,        \* iter_results with print_remote_info: progress_cache, the renderer's tasks
  classify       \* get_task_data on its own: descriptor, view, snapshot returned

vars == <<ids_map, broker, root_ready, pc, final, i, datas, after, exc, emitted,
          yielded, cycle, walk, render, classify>>

\* get_task_ids, the rendering of iter_results and get_task_data as a function
\* are modelled on their own, each with its own specification: Off is their
\* state while another one runs.
Off == [pc |-> "off"]
session == <<ids_map, broker, root_ready, pc, final, i, datas, after, exc, emitted,
             yielded, cycle>>
others == <<walk, render, classify>>

\* task_ids = list(ids_map.keys()): the identifiers in insertion order.
task_ids == [j \in 1..Cardinality(DOMAIN ids_map) |-> j]

NoExc == [type |-> "none", at |-> "none", final |-> FALSE]
NewCycle == [passes |-> 0, aggregate |-> -1]

Init ==
  /\ \E n \in 0..MaxIds : ids_map = [t \in 1..n |-> Descriptor(t)]
  /\ broker = [t \in DOMAIN ids_map |-> View("PENDING", InfoNone, 0)]
  /\ root_ready = FALSE
  /\ pc = "pass"
  /\ final = FALSE
  /\ i = 1
  /\ datas = << >>
  /\ after = "loop"
  /\ exc = NoExc
  /\ emitted = Nothing
  /\ yielded = {}
  /\ cycle = NewCycle
  /\ walk = Off
  /\ render = Off
  /\ classify = Off

\* An exception of the given type leaves the try block of poll.
Raise(type, at) ==
  /\ exc' = [type |-> type, at |-> at, final |-> final]
  /\ pc' = Handler(type)
  /\ after' = IF Handler(type) = "except" THEN after
              ELSE IF type = "GeneratorExit" THEN "close" ELSE "raise"
  /\ emitted' = Nothing
  /\ UNCHANGED <<final, i, datas, yielded, cycle>>

UuidsOf(results) == {results[j].uuid : j \in DOMAIN results}

\* yield data, in get_all_data and through poll; iter_results then yields every
\* record of data['results'] to its consumer.  before: the progress the dict of
\* the identifier held, which is the progress of the latest snapshot emitted
\* with it (of the descriptor when there is none); again: the records of this
\* snapshot that the consumer had been given before.
Emit(kind, t, snap) ==
  /\ emitted' = [kind |-> kind, id |-> t, snap |-> snap, before |-> ids_map[t]["progress"],
                 again |-> UuidsOf(snap["results"]) \cap yielded]
  /\ yielded' = yielded \cup UuidsOf(snap["results"])

\* What AsyncResult(task_id) shows now, given what it showed at the last read:
\* the same view, or a later one.
Reads(t, seen) == {v \in Views(t) : v = seen \/ v.rank > seen.rank}

\* One turn of the for loop of get_all_data: get_task_data(task_id, ids_map),
\* then yield data and datas.append(data).  res.state or res.info may raise a
\* DecodeError; an info that is an Exception is raised.  An AsyncResult is
\* never falsy and the dict returned is never empty, so neither `if not res`
\* nor `if not data` is taken.
FetchTask ==
  /\ pc = "pass"
  /\ i <= Len(task_ids)
  /\ LET t == task_ids[i]
         data == ids_map[t]
     IN  \/ /\ Raise("DecodeError", "state")
            /\ UNCHANGED <<ids_map, broker>>
         \/ \E res \in Reads(t, broker[t]) :
              /\ broker' = [broker EXCEPT ![t] = res]
              /\ \/ /\ ids_map' = [ids_map EXCEPT ![t] = SetUpState(data, res)]
                    /\ Raise("DecodeError", "info")
                 \/ /\ res.info.kind = "exc"
                    /\ ids_map' = [ids_map EXCEPT ![t] = SetUpState(data, res)]
                    /\ Raise(IF res.info.decode THEN "DecodeError" ELSE "RemoteError",
                             "payload")
                 \/ /\ res.info.kind # "exc"
                    /\ ids_map' = [ids_map EXCEPT ![t] = get_task_data(data, res)]
                    /\ Emit("task", t, get_task_data(data, res))
                    /\ datas' = Append(datas, t)
                    /\ i' = i + 1
                    /\ UNCHANGED <<pc, final, after, exc, cycle>>
  /\ UNCHANGED <<root_ready, others>>

\* The end of get_all_data: nothing when datas is empty, else the last snapshot
\* gets the percentage as its progress and is yielded once more.
Aggregate ==
  /\ pc = "pass"
  /\ i > Len(task_ids)
  /\ IF datas = << >>
     THEN /\ emitted' = Nothing
          /\ cycle' = [cycle EXCEPT !.passes = @ + 1]
          /\ UNCHANGED <<ids_map, yielded>>
     ELSE LET last == datas[Len(datas)]
              snap == Update(ids_map[last], [progress |-> percent(ids_map, datas)])
          IN  /\ ids_map' = [ids_map EXCEPT ![last] = snap]
              /\ Emit("agg", last, snap)
              /\ cycle' = [passes |-> cycle.passes + 1, aggregate |-> snap["progress"]]
  /\ pc' = AfterPass(final)
  /\ after' = IF AfterPass(final) = "finally" THEN "break" ELSE after
  /\ UNCHANGED <<broker, root_ready, final, i, datas, exc, others>>

\* What result.ready() answers now, given its last answer: once ready, the
\* root stays ready.
Answers(seen) == {r \in BOOLEAN : seen => r}

\* if result.ready(): ...
CheckReady ==
  /\ pc = "check"
  /\ \/ /\ Raise("DecodeError", "ready")
        /\ UNCHANGED <<ids_map, root_ready>>
     \/ \E ready \in Answers(root_ready) :
          /\ root_ready' = ready
          /\ pc' = AfterReady(ready)
          /\ IF AfterReady(ready) = "pass"
             THEN final' = TRUE /\ i' = 1 /\ datas' = << >> /\ after' = after
             ELSE after' = "loop" /\ UNCHANGED <<final, i, datas>>
          /\ emitted' = Nothing
          /\ UNCHANGED <<ids_map, exc, yielded, cycle>>
  /\ UNCHANGED <<broker, others>>

\* except kombu.exceptions.DecodeError: debug(...); pass
Except ==
  /\ pc = "except"
  /\ pc' = "finally"
  /\ after' = "loop"
  /\ UNCHANGED <<ids_map, broker, root_ready, final, i, datas, exc, emitted,
                 yielded, cycle, others>>

\* finally: sleep(refresh_interval), and then what the try block had decided.
Finally ==
  /\ pc = "finally"
  /\ \/ /\ after = "loop"
        /\ pc' = "pass" /\ final' = FALSE /\ i' = 1 /\ datas' = << >>
        /\ exc' = NoExc /\ cycle' = NewCycle
     \/ /\ after # "loop"
        /\ pc' = CASE after = "break" -> "done"
                   [] after = "raise" -> "raised"
                   [] OTHER -> "closed"
        /\ UNCHANGED <<final, i, datas, exc, cycle>>
  /\ emitted' = Nothing
  /\ UNCHANGED <<ids_map, broker, root_ready, after, yielded, others>>

\* The consumer closes the generator while poll is suspended on a yield:
\* GeneratorExit is raised there.
Close ==
  /\ emitted.kind # "nothing"
  /\ pc \in {"pass", "check", "finally"}
  /\ Raise("GeneratorExit", "yield")
  /\ UNCHANGED <<ids_map, broker, root_ready, others>>

PollNext == FetchTask \/ Aggregate \/ CheckReady \/ Except \/ Finally

Next == FetchTask \/ Aggregate \/ CheckReady \/ Except \/ Finally \/ Close

Spec == Init /\ [][Next]_vars

\* The loop runs on as long as the consumer asks for the next snapshot.
FairSpec == Spec /\ WF_vars(PollNext)

\* ------------------------------------------------------------ get_task_ids
\* Depth of the call stack at which the interpreter raises RecursionError.
MaxDepth == 5

\* The state of poll while another entry point of CeleryData runs.
PollOff ==
  /\ ids_map = << >>
  /\ broker = << >>
  /\ root_ready = FALSE
  /\ pc = "off"
  /\ final = FALSE
  /\ i = 1
  /\ datas = << >>
  /\ after = "loop"
  /\ exc = NoExc
  /\ emitted = Nothing
  /\ yielded = {}
  /\ cycle = NewCycle

\* A result handle: an AsyncResult or a GroupResult, its parent (0 is None)
\* and what .children gives: a list of handles, or something that is no list.
\* A handle is known by its place in the graph, which is also its id.
Result(kind, parent, children) ==
  [kind |-> kind, parent |-> parent, children |-> children]
NoList == [list |-> FALSE, items |-> << >>]
List(items) == [list |-> TRUE, items |-> items]

\* The handle graphs get_task_ids is started on, always at handle 1: a chain
\* of parents; children sharing a subtree; a group with a parent that is also
\* the parent of its member; a group without parent; a child whose parent
\* link points back to the handle it is a child of; two handles that are each
\* other's child.
Graphs ==
  { << Result("AsyncResult", 2, NoList), Result("AsyncResult", 3, NoList),
       Result("AsyncResult", 0, NoList) >>,
    << Result("AsyncResult", 0, List(<<2, 3>>)), Result("AsyncResult", 0, List(<<3>>)),
       Result("AsyncResult", 0, List(<< >>)) >>,
    << Result("GroupResult", 2, List(<<3>>)), Result("AsyncResult", 0, NoList),
       Result("AsyncResult", 2, NoList) >>,
    << Result("GroupResult", 0, List(<<2, 3>>)), Result("AsyncResult", 0, NoList),
       Result("AsyncResult", 0, List(<<2>>)) >>,
    << Result("AsyncResult", 0, List(<<2>>)), Result("AsyncResult", 1, NoList) >>,
    << Result("AsyncResult", 0, List(<<2>>)), Result("AsyncResult", 0, List(<<1>>)) >> }

Range(seq) == {seq[j] : j \in DOMAIN seq}

\* AppendId without the membership test.
AppendIdAlways(ids, id) == Append(ids, id)

\* if result.id not in ids: ids.append(result.id)
AppendId(ids, id) == IF id \in Range(ids) THEN ids ELSE Append(ids, id)

\* One activation of get_task_ids(result, ids): result, where it is, and the
\* index of the next child in the for loop.
Frame(h) == [h |-> h, at |-> "enter", k |-> 1]
Top == walk.stack[Len(walk.stack)]
At(at) == walk.pc = "run" /\ Top.at = at

\* The top activation moves on, within the function.
Goto(at) ==
  walk' = [walk EXCEPT !.stack[Len(walk.stack)].at = at]

\* The top activation returns: its caller goes on, or the walk is over.
ReturnFrom(w) ==
  IF Len(w.stack) = 1
  THEN [w EXCEPT !.stack = << >>, !.pc = "done"]
  ELSE [w EXCEPT !.stack = SubSeq(w.stack, 1, Len(w.stack) - 1)]

\* CeleryData.get_task_ids(h, ids=ids) called by the top activation, which
\* will go on from next: a RecursionError when the stack is full, and nothing
\* on the way catches it.
Call(w, next, h) ==
  IF Len(w.stack) >= MaxDepth
  THEN [w EXCEPT !.stack = << >>, !.pc = "overflow"]
  ELSE [w EXCEPT !.stack = Append([w.stack EXCEPT ![Len(w.stack)] = next], Frame(h))]

\* except kombu.exceptions.DecodeError: console.print(...); return, in the
\* activation whose try block the error was raised in.
Caught(w) == ReturnFrom([w EXCEPT !.faulted = TRUE])

WalkInit ==
  /\ PollOff
  /\ render = Off
  /\ classify = Off
  /\ \E g \in Graphs :
       walk = [pc |-> "run", graph |-> g, stack |-> <<Frame(1)>>, ids |-> << >>,
               visits |-> << >>, faulted |-> FALSE]

\* The head of the function: None returns; a GroupResult has its parent
\* walked first; an AsyncResult has its id appended unless it is in ids.
\* visits is the history of the handles entered.
WalkEnter ==
  /\ At("enter")
  /\ LET h == Top.h
         r == walk.graph[h]
         seen == [walk EXCEPT !.visits = Append(@, h)]
     IN  IF h = 0
         THEN walk' = ReturnFrom(walk)
         ELSE IF r.kind = "GroupResult"
              THEN \/ walk' = Call(seen, [Top EXCEPT !.at = "children"], r.parent)
                   \/ walk' = Caught(seen)
              ELSE walk' = [seen EXCEPT !.ids = AppendId(@, h),
                                        !.stack[Len(walk.stack)].at = "children"]
  /\ UNCHANGED <<session, render, classify>>

\* if hasattr(result, 'children'): children = result.children, which asks the
\* broker and may raise a DecodeError; if isinstance(children, list): ...
WalkChildren ==
  /\ At("children")
  /\ \/ Goto(IF walk.graph[Top.h].children.list THEN "loop" ELSE "parent")
     \/ walk' = Caught(walk)
  /\ UNCHANGED <<session, render, classify>>

\* for child in children: CeleryData.get_task_ids(child, ids=ids)
WalkLoop ==
  /\ At("loop")
  /\ LET items == walk.graph[Top.h].children.items
     IN  IF Top.k <= Len(items)
         THEN walk' = Call(walk, [Top EXCEPT !.k = @ + 1], items[Top.k])
         ELSE Goto("parent")
  /\ UNCHANGED <<session, render, classify>>

\* if hasattr(result, 'parent') and result.parent:
\*     CeleryData.get_task_ids(result.parent, ids=ids)
WalkParent ==
  /\ At("parent")
  /\ LET parent == walk.graph[Top.h].parent
     IN  \/ IF parent # 0
            THEN walk' = Call(walk, [Top EXCEPT !.at = "return"], parent)
            ELSE walk' = ReturnFrom(walk)
         \/ walk' = Caught(walk)
  /\ UNCHANGED <<session, render, classify>>

\* The end of the function body.
WalkReturn ==
  /\ At("return")
  /\ walk' = ReturnFrom(walk)
  /\ UNCHANGED <<session, render, classify>>

WalkNext == WalkEnter \/ WalkChildren \/ WalkLoop \/ WalkParent \/ WalkReturn

WalkSpec == WalkInit /\ [][WalkNext]_vars

\* ------------------------------------------------------------ iter_results
\* Largest number of snapshots poll yields in one session.
MaxSnapshots == 3

\* pdata['state'] = f'[{STATE_COLORS[state]}]{state}[/]'
Colorize(state) == [label |-> state]

\* bool(v) for the value v under key k of a snapshot: 0, False and [] are
\* falsy; names and labels are non-empty strings.
Truthy(k, v) ==
  CASE k \in {"id", "count", "progress", "advance"} -> v # 0
    [] k = "ready" -> v
    [] k = "results" -> v # << >>
    [] OTHER -> TRUE

\* {k: v for k, v in pdata.items() if v}
Strip(d) == [k \in {x \in DOMAIN d : Truthy(x, d[x])} |-> d[k]]

\* pdata.pop(key, None): what is left of pdata.
Without(d, key) == [k \in (DOMAIN d) \ {key} |-> d[k]]

\* The renderer (rich.progress.Progress) as this code uses it: add_task makes
\* an entry with total 100 and nothing completed, update merges the fields and
\* adds advance to completed; the entry shows completed / total, at most 100%.
add_task(fields) == [fields |-> fields, completed |-> 0, total |-> 100]
SetFields(task, fields) == [task EXCEPT !.fields = Update(@, fields)]
Advance(task, amount) == [task EXCEPT !.completed = @ + amount]
Percentage(task) ==
  IF task.completed >= task.total THEN 100 ELSE (task.completed * 100) \div task.total

\* init_progress with one entry, shared by all identifiers.
init_progress_shared(map) ==
  [cache |-> [t \in DOMAIN map |-> 0],
   tasks |-> [e \in {0} |-> add_task([advance |-> 0])]]

\* init_progress(progress, ids_map): one entry per identifier, in insertion
\* order (the renderer numbers its entries from 0), and the cache of them.
init_progress(map) ==
  [cache |-> [t \in DOMAIN map |-> t - 1],
   tasks |-> [e \in {t - 1 : t \in DOMAIN map} |->
                add_task(Update(Update(map[e + 1],
                                       [state |-> Colorize(map[e + 1]["state"])]),
                                [advance |-> 0]))]]

\* update_progress(progress, progress_id, data)
update_progress(tasks, progress_id, data) ==
  LET pdata == Strip(Update(data, [state |-> Colorize(data["state"])]))
      fields == Without(pdata, "progress")
      updated == SetFields(tasks[progress_id], fields)
  IN  [tasks EXCEPT ![progress_id] =
         IF "progress" \in DOMAIN pdata
         THEN Advance(updated, pdata["progress"])
         ELSE updated]

\* The loop after the for loop of iter_results, left out.
ForceAllSkipped(tasks) == tasks

\* for progress_id in progress_cache.values(): progress.update(progress_id, advance=100)
ForceAll(tasks) == [e \in DOMAIN tasks |-> Advance(tasks[e], 100)]

\* The snapshots poll can yield for the identifiers of map: what get_task_data
\* returns for a view of the task, and for the last identifier also such a
\* snapshot with the percentage of a pass as its progress.
Snapshots(map) ==
  LET n == Len(map)
      PerTask(t) == {get_task_data(map[t], v) : v \in {x \in Views(t) : x.info.kind # "exc"}}
  IN  UNION {PerTask(t) : t \in DOMAIN map}
        \cup {Update(snap, [progress |-> (k * 100) \div n]) : snap \in PerTask(n), k \in 0..n}

\* iter_results(result, ids_map, print_remote_info=True) is called.
RenderInit ==
  /\ PollOff
  /\ walk = Off
  /\ classify = Off
  /\ \E n \in 1..MaxIds :
       render = [pc |-> "start", ids_map |-> [t \in 1..n |-> Descriptor(t)],
                 cache |-> << >>, tasks |-> << >>, data |-> Nothing, count |-> 0,
                 forwarded |-> << >>]

\* progress_cache = CeleryData.init_progress(progress, ids_map).  forwarded is
\* the history of the progress values forwarded for each entry.
RenderStart ==
  /\ render.pc = "start"
  /\ LET made == init_progress(render.ids_map)
     IN  render' = [render EXCEPT !.pc = "poll", !.cache = made.cache, !.tasks = made.tasks,
                                  !.forwarded = [e \in DOMAIN made.tasks |-> << >>]]
  /\ UNCHANGED <<session, walk, classify>>

\* for data in CeleryData.poll(...): poll yields a snapshot, and iter_results
\* starts on yield from data['results'].
RenderPoll ==
  /\ render.pc = "poll"
  /\ render.count < MaxSnapshots
  /\ \E data \in Snapshots(render.ids_map) :
       render' = [render EXCEPT !.pc = "yield", !.data = data, !.count = @ + 1]
  /\ UNCHANGED <<session, walk, classify>>

\* The records are consumed: task_id = data['id'];
\* progress_id = progress_cache[task_id]; update_progress(...).
RenderUpdate ==
  /\ render.pc = "yield"
  /\ LET task_id == render.data["id"]
     IN  IF task_id \in DOMAIN render.cache
         THEN LET progress_id == render.cache[task_id]
              IN  render' = [render EXCEPT
                               !.pc = "poll",
                               !.tasks = update_progress(@, progress_id, render.data),
                               !.forwarded[progress_id] = Append(@, render.data["progress"])]
         ELSE render' = [render EXCEPT !.pc = "KeyError"]
  /\ UNCHANGED <<session, walk, classify>>

\* The consumer closes iter_results while it is suspended on a record of
\* data['results']: GeneratorExit leaves the with block.
RenderClose ==
  /\ render.pc = "yield"
  /\ render.data["results"] # << >>
  /\ render' = [render EXCEPT !.pc = "closed"]
  /\ UNCHANGED <<session, walk, classify>>

\* poll raises the exception of a remote task: it leaves the for loop and the
\* with block.
RenderRaise ==
  /\ render.pc = "poll"
  /\ render' = [render EXCEPT !.pc = "raised"]
  /\ UNCHANGED <<session, walk, classify>>

\* poll is exhausted: the for loop ends and every entry is advanced by 100.
RenderEnd ==
  /\ render.pc = "poll"
  /\ render' = [render EXCEPT !.pc = "ended", !.tasks = ForceAll(@)]
  /\ UNCHANGED <<session, walk, classify>>

RenderNext ==
  RenderStart \/ RenderPoll \/ RenderUpdate \/ RenderClose \/ RenderRaise \/ RenderEnd

RenderSpec == RenderInit /\ [][RenderNext]_vars

\* ----------------------------------------------- get_task_data, on its own
\* Largest number of records in a list payload.
MaxLen == 2

\* The records a task may return: items and error markers, its own and those
\* of a subtask, and a progress record.
Records(t) ==
  { Rec(1, "item", Names[t], 0), Rec(2, "item", "subtask", 0),
    Rec(3, "error", Names[t], 0), Rec(4, "error", "subtask", 0),
    Rec(5, "progress", Names[t], 70) }

RECURSIVE SeqsUpTo(_, _)
SeqsUpTo(S, n) ==
  IF n = 0 THEN {<< >>}
  ELSE LET shorter == SeqsUpTo(S, n - 1)
       IN  shorter \cup {Append(q, x) : q \in shorter, x \in S}

STATES == {"PENDING", "RUNNING", "SUCCESS", "FAILURE", "REVOKED"}

\* get_task_data(task_id, ids_map) is about to read a list payload: the dict
\* of the identifier is the caller's descriptor, or what an earlier call left.
ClassifyInit ==
  /\ PollOff
  /\ walk = Off
  /\ render = Off
  /\ \E t \in 1..MaxIds, state \in STATES :
       \E items \in SeqsUpTo(Records(t), MaxLen),
          data \in {Descriptor(t)}
                     \cup {get_task_data(Descriptor(t), v) :
                             v \in {x \in Views(t) : x.info.kind # "exc"}} :
         classify = [pc |-> "call", data |-> data,
                     res |-> View(state, InfoList(items), 0), out |-> Nothing]

\* The call returns its snapshot.
Classify ==
  /\ classify.pc = "call"
  /\ classify' = [classify EXCEPT !.pc = "returned",
                                  !.out = get_task_data(classify.data, classify.res)]
  /\ UNCHANGED <<session, walk, render>>

ClassifyNext == Classify

ClassifySpec == ClassifyInit /\ [][ClassifyNext]_vars

\* ----------------------------------------------------------------- claims
Terminated == pc \in {"done", "raised", "closed"}
AllIterated == i > Len(task_ids)

\* C1: across one session every record is yielded to the consumer at most
\* once: no snapshot carries a record that an earlier snapshot carried.
C1_RecordYieldedOnce == emitted.kind # "nothing" => emitted.again = {}

C4_DecodeErrorCaught ==
  /\ [](exc.type = "DecodeError"
          => pc = "except" \/ (pc = "finally" /\ after = "loop"))
  /\ [][exc.type = "DecodeError" /\ pc' # pc
          => \/ pc = "except" /\ pc' = "finally"
             \/ pc = "finally" /\ pc' = "pass" /\ i' = 1 /\ ~final' /\ datas' = << >>]_vars

C4_Witness == exc.type = "DecodeError" /\ exc.final /\ pc = "finally" /\ exc.at = "info"

\* C5: a cycle in which the fetch of one identifier raised a DecodeError still
\* emits its aggregate, computed from the other identifiers.
C5_AggregateDespiteFault ==
  (/\ pc = "finally"
   /\ exc.type = "DecodeError" /\ exc.at \in {"state", "info"} /\ ~exc.final
   /\ Len(task_ids) >= 2)
    => cycle.aggregate # -1

\* C6: an info that is an exception object is not caught by poll: it goes to
\* the caller, nothing more is emitted and no other cycle starts.
C6_RemoteExceptionPropagates ==
  exc.at = "payload"
    => pc \in {"finally", "raised"} /\ after = "raise" /\ emitted.kind = "nothing"

\* C7, as stated: every snapshot poll emits, per task or aggregate, has
\* progress 100 when its ready flag is set.
C7_ReadyImpliesFull ==
  emitted.kind # "nothing"
    => (emitted.snap["ready"] => emitted.snap["progress"] = 100)

\* C7, amended: every per-task snapshot poll emits has progress 100 when its
\* ready flag is set; an aggregate carries the percentage of the pass, which is
\* 100 exactly when every snapshot of the pass is ready.
C7_TaskReadyImpliesFull ==
  /\ emitted.kind = "task"
       => (emitted.snap["ready"] => emitted.snap["progress"] = 100)
  /\ emitted.kind = "agg"
       => (emitted.snap["progress"] = 100
             <=> \A j \in DOMAIN datas : ids_map[datas[j]]["ready"])

C7_Witness ==
  /\ emitted.kind = "task"
  /\ emitted.snap["ready"] /\ emitted.snap["progress"] = 100
  /\ emitted.before \in {40, 70}

\* C8: in every snapshot get_task_data returns, whatever the payload (a list, a
\* dict that may carry state or ready itself, None), ready is set exactly when
\* state is SUCCESS, FAILURE or REVOKED.
C8_ReadyIffTerminal ==
  emitted.kind = "task"
    => (emitted.snap["ready"] <=> emitted.snap["state"] \in TERMINAL)

C8_Witness ==
  /\ emitted.kind = "task"
  /\ broker[emitted.id].info.kind = "dict"
  /\ "ready" \in DOMAIN broker[emitted.id].info.map
  /\ broker[emitted.id].info.map["ready"] # emitted.snap["ready"]

\* C9: when poll ends normally the last aggregate has progress 100: every
\* tracked identifier's snapshot is ready.
C9_EndsAtFullProgress ==
  (pc = "done" /\ Len(task_ids) > 0)
    => cycle.aggregate = 100 /\ \A t \in DOMAIN ids_map : ids_map[t]["ready"]

\* C10: the progress of the successive snapshots emitted with one identifier,
\* aggregates included, never decreases (the views of a task are ordered so
\* that its own reports never decrease and a terminal state is kept).
C10_ProgressMonotone ==
  emitted.kind # "nothing" => emitted.snap["progress"] >= emitted.before

\* C11: a pass of get_all_data over a non-empty ids_map emits the per-task
\* snapshots in the insertion order of the identifiers and then an aggregate
\* whose progress is floor(100 * ready snapshots / snapshots); emitting the
\* aggregate leaves the progress of the per-task snapshot it comes from as it
\* was.
C11_AggregateIsClone ==
  /\ emitted.kind = "task"
       => datas = SubSeq(task_ids, 1, Len(datas)) /\ emitted.id = datas[Len(datas)]
  /\ emitted.kind = "agg"
       => /\ datas = task_ids
          /\ emitted.snap["progress"] = (count_finished(ids_map, datas) * 100) \div Len(datas)
          /\ ids_map[emitted.id]["progress"] = emitted.before

\* The handles a walk started at handle 1 can get to, through parent links
\* and children lists.
Links(g, h) ==
  (IF g[h].parent # 0 THEN {g[h].parent} ELSE {})
    \cup (IF g[h].children.list THEN Range(g[h].children.items) ELSE {})

RECURSIVE Reach(_, _, _)
Reach(g, S, n) ==
  IF n = 0 THEN S ELSE Reach(g, S \cup UNION {Links(g, h) : h \in S}, n - 1)

Reachable(g) == Reach(g, {1}, Len(g))

\* A sequence with only the first occurrence of each of its elements.
RECURSIVE FirstVisits(_)
FirstVisits(seq) ==
  IF seq = << >> THEN << >>
  ELSE LET front == FirstVisits(SubSeq(seq, 1, Len(seq) - 1))
           x == seq[Len(seq)]
       IN  IF x \in Range(front) THEN front ELSE Append(front, x)

SingleTask(g, h) == g[h].kind = "AsyncResult"

\* C12: all along a walk ids holds the single-task handles entered so far,
\* each once, in the order they were first entered; when the walk of a graph
\* ends without a fault these are all the single-task handles that parent
\* links and children lists lead to, however many ways lead to each.
C12_IdsOnceInVisitOrder ==
  /\ walk.ids = FirstVisits(SelectSeq(walk.visits, LAMBDA h : SingleTask(walk.graph, h)))
  /\ Cardinality(Range(walk.ids)) = Len(walk.ids)
  /\ (walk.pc = "done" /\ ~walk.faulted)
       => Range(walk.ids) = {h \in Reachable(walk.graph) : SingleTask(walk.graph, h)}

C12_Witness ==
  /\ walk.pc = "done" /\ ~walk.faulted
  /\ walk.graph[1].kind = "GroupResult"
  /\ walk.ids = <<2, 3>>
  /\ Len(SelectSeq(walk.visits, LAMBDA h : h = 2)) = 3

\* C13: the walk of a finite graph ends, a parent link that points back to a
\* handle under way included: no handle is entered while it is being walked,
\* and the stack never outgrows the interpreter.
C13_NoHandleWalkedAgain ==
  /\ walk.pc # "overflow"
  /\ \A a, b \in DOMAIN walk.stack :
       (a # b /\ walk.stack[a].h # 0) => walk.stack[a].h # walk.stack[b].h

\* C14: once a DecodeError was raised in a walk, at any depth, nothing more is
\* walked: no handle is entered and no identifier is appended.
C14_FaultStopsDiscovery ==
  [][walk.faulted => walk'.ids = walk.ids /\ walk'.visits = walk.visits]_vars

\* C15: from the start of a rendering session on, every identifier of ids_map
\* has one renderer entry of its own, the entries and the cache are never
\* deleted nor replaced, and the identifier of every snapshot poll yields is
\* in the cache.
C15_OneEntryPerIdentifier ==
  /\ [](render.pc # "start"
          => /\ DOMAIN render.cache = DOMAIN render.ids_map
             /\ \A a, b \in DOMAIN render.cache :
                  a # b => render.cache[a] # render.cache[b]
             /\ {render.cache[t] : t \in DOMAIN render.cache} = DOMAIN render.tasks
             /\ render.pc # "KeyError"
             /\ render.pc = "yield" => render.data["id"] \in DOMAIN render.cache)
  /\ [][render.pc # "start"
          => /\ render'.cache = render.cache
             /\ DOMAIN render'.tasks = DOMAIN render.tasks]_vars

C15_Witness ==
  /\ render.pc = "yield"
  /\ Len(render.ids_map) = 2
  /\ render.data["id"] = 2
  /\ render.forwarded[0] # << >> /\ render.forwarded[1] # << >>

NonDecreasing(seq) == \A a, b \in DOMAIN seq : a <= b => seq[a] <= seq[b]

\* C17: while snapshots are forwarded, an entry for which the progress values
\* forwarded so far never decreased has the last of them as its completed
\* amount: forwarding the same progress again changes nothing.
C17_CompletedIsLastProgress ==
  render.pc \in {"poll", "yield"}
    => \A e \in DOMAIN render.forwarded :
         (render.forwarded[e] # << >> /\ NonDecreasing(render.forwarded[e]))
           => render.tasks[e].completed = render.forwarded[e][Len(render.forwarded[e])]

\* C18: poll leaves every ids_map descriptor as the caller supplied it, but
\* for state: no other key changes and no key is added.
C18_OnlyStateWritten ==
  \A t \in DOMAIN ids_map :
    /\ DOMAIN ids_map[t] = DOMAIN Descriptor(t)
    /\ \A k \in (DOMAIN Descriptor(t)) \ {"state"} : ids_map[t][k] = Descriptor(t)[k]

\* C19: for a payload that is a list of records, whatever state the broker
\* reports and whatever the dict held, the snapshot returned has that list as
\* results, the number of records of the task's own name as count, and state
\* FAILURE when a record is an error marker and SUCCESS otherwise; an empty
\* list gives SUCCESS and count 0.
C19_ListPayloadClassified ==
  classify.pc = "returned"
    => LET items == classify.res.info.items
           out == classify.out
       IN  /\ out["results"] = items
           /\ out["count"]
                = Cardinality({j \in DOMAIN items : items[j].source = classify.data["name"]})
           /\ out["state"] = IF \E j \in DOMAIN items : items[j].type = "error"
                             THEN "FAILURE" ELSE "SUCCESS"
           /\ items = << >> => out["state"] = "SUCCESS" /\ out["count"] = 0

C19_Witness ==
  /\ classify.pc = "returned"
  /\ classify.res.state = "RUNNING"
  /\ classify.res.info.items = << >>
  /\ classify.data["count"] = 1
  /\ classify.out["state"] = "SUCCESS" /\ classify.out["count"] = 0

\* C20: once the consumer has closed the generator, at whatever snapshot of
\* whatever pass, poll only passes through its finally clause and ends: no
\* task is fetched, result.ready() is not asked and nothing is emitted.
C20_CloseCancels ==
  /\ [](exc.type = "GeneratorExit"
          => pc \in {"finally", "closed"} /\ after = "close" /\ emitted.kind = "nothing")
  /\ [][exc.type = "GeneratorExit"
          => /\ ids_map' = ids_map /\ broker' = broker /\ root_ready' = root_ready
             /\ i' = i /\ datas' = datas /\ yielded' = yielded
             /\ pc' \in {"finally", "closed"}]_vars

C20_Witness ==
  /\ pc = "closed"
  /\ exc.final
  /\ Len(task_ids) = 2 /\ i = 2
  /\ broker[2].rank = 0

====
